---- MODULE Spec2Model ----
(***************************************************************************)
(* Identity resolution and aggregation of the municipality voting data.    *)
(*                                                                         *)
(* The state is the content of the two tables the analysis views read,     *)
(* municipal_changes (the mutation ledger) and voting_results (the         *)
(* measurement records), together with the rows the latest evaluation of   *)
(* the view v_stable_municipality_mapping returned.  The views are SQL     *)
(* views: they are evaluated whenever they are read, so every action that  *)
(* changes a table also re-evaluates them.                                 *)
(*                                                                         *)
(* Dates are 'YYYYMMDD' texts in the database and are compared as texts;   *)
(* for texts of that shape the comparison is the comparison of the         *)
(* numbers, so the model uses small integers.  Percentages are kept in     *)
(* hundredths (10.00 is 1000) so that ROUND(x, 2) stays integer            *)
(* arithmetic.  A row of voting_results is identified by its content.      *)
(*                                                                         *)
(* Five specifications share the variables.  Spec and SpecAgg load the     *)
(* two tables row by row.  SpecRun runs main of create_analysis_views.py   *)
(* and the CSV export on a database the import left behind.  SpecVerify    *)
(* evaluates the conservation check on the two relations it compares.      *)
(* SpecImport re-imports the ledger with scripts/import_municipal_changes  *)
(* next to the file loop of import_voting_data and a reader on another     *)
(* connection.  The tables cantons, districts and municipalities hold the  *)
(* window of voting dates in which the import saw each unit.               *)
(***************************************************************************)
EXTENDS Integers, FiniteSets, Sequences

VARIABLES municipal_changes, voting_results, v_stable_municipality_mapping

\* a run of main of create_analysis_views.py and of the export: the position
\* of main, whether v_voting_results_analysis exists, the rows the
\* conservation check reads from it when they are given as an input, the
\* result of the check's query, the value main returned, and what the
\* export read
VARIABLES pc, views_exist, aggregated, mismatches, exit_code, exported

run_vars == <<pc, views_exist, aggregated, mismatches, exit_code, exported>>

\* a run of scripts/import_municipal_changes.py on an existing database, of
\* the file loop of import_voting_data and of a reader on a connection of
\* its own: the rows read from the Excel file, the position of the script
\* and of its insert loop, whether the table municipal_changes exists, the
\* rows inserted and not yet committed, the counters of the two loops, the
\* voting files, and the ledger as each query of the reader found it.
\* municipal_changes and voting_results hold what is committed.
VARIABLES df, idx, ipc, table_exists, pending, counts, json_files,
          file_counts, export_reads

import_vars == <<df, idx, ipc, table_exists, pending, counts, json_files,
                 file_counts, export_reads>>

\* the tables of the units seen in the voting files: a row holds the id of
\* the unit (canton_id, district_id, municipality_id) and its
\* first_seen_date and last_seen_date; the names and parents are left out
VARIABLES cantons, districts, municipalities

unit_vars == <<cantons, districts, municipalities>>

vars == <<municipal_changes, voting_results, v_stable_municipality_mapping,
          run_vars, import_vars, unit_vars>>

\* ---------------------------------------------------------------- bounds
MaxChanges == 3
MaxResults == 2
\* rows of the database a run of the views script starts from
MaxRunChanges == 2
MaxRunResults == 3
\* rows of the two relations the conservation check compares
MaxCheckRows == 2
\* records of the Excel file and voting files of one import
MaxBatch == 2
MaxFiles == 2
\* queries of one run of the reader
MaxReads == 2

\* ------------------------------------------------------------- constants
MaxDepth == 10
MergeDepthLimit == 10
\* LIMIT 10 of the query of verify_perfect_matching
MismatchLimit == 10

\* a nullable number is a sequence: <<>> is NULL, <<v>> is the value v
NULL == <<>>

\* ------------------------------------------------------------ input sets
Ids == {"A", "B", "C"}
Names == {"n1", "n2"}
Proposals == {1, 2}
MutationDates == {2, 3}

\* votings JOIN proposals: the voting date of a proposal
voting_date(p) == IF p = 1 THEN 1 ELSE 3

\* the names a unit is recorded under: the later voting records A under
\* either name, and the later mutations carry the second name
GeoNames(p, g) == IF p = 2 /\ g = "A" THEN Names ELSE {"n1"}
LedgerName(d) == IF d = 2 THEN "n1" ELSE "n2"

\* the counts of one result record (res.get(...) of process_voting_file);
\* ja_stimmen_prozent is the percentage stored with the source record
ProfileX ==
    [ja_stimmen_absolut |-> 90, nein_stimmen_absolut |-> 10,
     gueltige_stimmen |-> 100, eingelegte_stimmzettel |-> 100,
     anzahl_stimmberechtigte |-> 200, ja_stimmen_prozent |-> 9000]
ProfileY ==
    [ja_stimmen_absolut |-> 10, nein_stimmen_absolut |-> 890,
     gueltige_stimmen |-> 900, eingelegte_stimmzettel |-> 900,
     anzahl_stimmberechtigte |-> 1000, ja_stimmen_prozent |-> 111]
ProfileZ ==
    [ja_stimmen_absolut |-> 0, nein_stimmen_absolut |-> 0,
     gueltige_stimmen |-> 0, eingelegte_stimmzettel |-> 3,
     anzahl_stimmberechtigte |-> 7, ja_stimmen_prozent |-> 0]
ProfileE ==
    [ja_stimmen_absolut |-> 0, nein_stimmen_absolut |-> 0,
     gueltige_stimmen |-> 0, eingelegte_stimmzettel |-> 0,
     anzahl_stimmberechtigte |-> 0, ja_stimmen_prozent |-> 0]
CountProfiles == {ProfileX, ProfileY, ProfileZ, ProfileE}

ChangeRow(o, n, d) ==
    [old_bfs_number |-> o, new_bfs_number |-> n,
     new_name |-> LedgerName(d), mutation_date |-> d]

ResultRow(p, l, g, gn, c) ==
    [proposal_id |-> p, geo_level |-> l, geo_id |-> g, geo_name |-> gn,
     ja_stimmen_absolut |-> c.ja_stimmen_absolut,
     nein_stimmen_absolut |-> c.nein_stimmen_absolut,
     gueltige_stimmen |-> c.gueltige_stimmen,
     eingelegte_stimmzettel |-> c.eingelegte_stimmzettel,
     anzahl_stimmberechtigte |-> c.anzahl_stimmberechtigte,
     ja_stimmen_prozent |-> c.ja_stimmen_prozent]

\* canton-level rows share the id space of the municipality-level rows
CantonRows == {ResultRow(p, "canton", "A", "n1", ProfileX) : p \in Proposals}

\* inputs of the resolver specification: every structural edge between the
\* ids and one record without id change; one count profile per
\* municipality id
IdProfile(g) == IF g = "A" THEN ProfileX ELSE IF g = "B" THEN ProfileY ELSE ProfileZ
StructuralRows ==
    {r \in {ChangeRow(o, n, d) : o \in Ids, n \in Ids, d \in MutationDates} :
        r.old_bfs_number # r.new_bfs_number}
LedgerRows == StructuralRows \cup {ChangeRow("A", "A", 2)}
ResultRows ==
    {ResultRow(1, "canton", "A", "n1", ProfileX)} \cup
    UNION {{ResultRow(p, "municipality", g, gn, IdProfile(g)) :
              gn \in GeoNames(p, g)} : p \in Proposals, g \in Ids}

\* inputs of the aggregation specification: the structural edges of one
\* date, every count profile for every municipality id under one name
AggLedgerRows == {r \in StructuralRows : r.mutation_date = 2}
AggResultRows ==
    CantonRows \cup
    {ResultRow(p, "municipality", g, "n1", c) :
        p \in Proposals, g \in Ids, c \in CountProfiles}

\* inputs of the run specification: the edges into B, under either ledger
\* name, and one record per municipality id and proposal
RunLedgerRows == {r \in StructuralRows : r.new_bfs_number = "B"}
RunResultRows ==
    {ResultRow(p, "municipality", g, "n1", IdProfile(g)) :
        p \in Proposals, g \in Ids}

\* inputs of the check specification: the records of one municipality with
\* three count profiles
CheckResultRows ==
    {ResultRow(p, "municipality", "A", "n1", c) :
        p \in Proposals, c \in {ProfileX, ProfileZ, ProfileE}}

SubsetsUpTo(S, n) == {T \in SUBSET S : Cardinality(T) <= n}

\* inputs of the import specification.  A text is coded by a number: the
\* text 'YYYYMMDD' of a date by the date, the text sqlite3 makes of a
\* datetime object by IsoText, and a cell text that is no date by
\* UnparseableDate.  UnparseableId is a cell text that is no number.
UnparseableId == "x?"
UnparseableDate == 99
IsoText(d) == 10 + d

\* a row of the data frame: the cells and whether sqlite3 can bind them
RawRecord(o, n, d, b) ==
    [old_bfs_number |-> o, new_bfs_number |-> n, new_name |-> "n1",
     mutation_date |-> d, bindable |-> b]

RawRecords ==
    {RawRecord("A", "C", 3, TRUE), RawRecord(UnparseableId, "C", 3, TRUE),
     RawRecord("A", "C", UnparseableDate, TRUE), RawRecord("B", "C", 2, FALSE)}

\* the ledger of the database before the import
OldLedger ==
    {[old_bfs_number |-> "A", new_bfs_number |-> "B", new_name |-> "n1",
      mutation_date |-> 2, is_merger |-> FALSE, is_split |-> FALSE]}

\* a voting file: the result rows it holds and whether processing it
\* raises.  The files of the later voting date hold units of the first
\* file again.
VotingFiles ==
    {[rows |-> {ResultRow(1, "municipality", "A", "n1", ProfileX),
                ResultRow(1, "canton", "A", "n1", ProfileX)},
      fails |-> FALSE],
     [rows |-> {ResultRow(2, "municipality", "B", "n1", ProfileY),
                ResultRow(2, "canton", "A", "n1", ProfileX)},
      fails |-> TRUE],
     [rows |-> {ResultRow(2, "municipality", "C", "n1", ProfileZ),
                ResultRow(2, "municipality", "A", "n1", ProfileX),
                ResultRow(2, "district", "A", "n1", ProfileX)},
      fails |-> FALSE]}

SeqsUpTo(S, n) == UNION {[1..k -> S] : k \in 0..n}

\* ------------------------------------------------------------- helpers
Min(S) == CHOOSE x \in S : \A y \in S : x <= y
Max(S) == CHOOSE x \in S : \A y \in S : x >= y

RECURSIVE SUM(_, _)
SUM(rows, col) ==
    IF rows = {} THEN 0
    ELSE LET r == CHOOSE x \in rows : TRUE
         IN  r[col] + SUM(rows \ {r}, col)

\* ROUND(100.0 * num / den, 2) in hundredths, den > 0
ROUND2(num, den) == (20000 * num + den) \div (2 * den)

\* ------------------------------------------- v_stable_municipality_mapping
MunicipalityResults(vr) == {r \in vr : r.geo_level = "municipality"}

voting_municipalities(vr) ==
    { [bfs |-> g[1], name |-> g[2],
       first_appearance |->
           Min({voting_date(r.proposal_id) :
                  r \in {x \in MunicipalityResults(vr) :
                            x.geo_id = g[1] /\ x.geo_name = g[2]}})] :
      g \in {<<r.geo_id, r.geo_name>> : r \in MunicipalityResults(vr)} }

\* true_splits without the comparison of the mutation dates
true_splits_AnyDate(mc) ==
    { mc1.old_bfs_number :
        mc1 \in { c \in mc :
                    /\ c.old_bfs_number # c.new_bfs_number
                    /\ \E mc2 \in mc :
                          /\ mc2.old_bfs_number = c.old_bfs_number
                          /\ mc2.new_bfs_number # c.new_bfs_number
                          /\ mc2.old_bfs_number # mc2.new_bfs_number } }

true_splits(mc) ==
    { mc1.old_bfs_number :
        mc1 \in { c \in mc :
                    /\ c.old_bfs_number # c.new_bfs_number
                    /\ \E mc2 \in mc :
                          /\ mc2.old_bfs_number = c.old_bfs_number
                          /\ mc2.new_bfs_number # c.new_bfs_number
                          /\ mc2.mutation_date = c.mutation_date
                          /\ mc2.old_bfs_number # mc2.new_bfs_number } }

\* base case of merger_chain; left records the ids the row left over an
\* edge, that is the old_bfs_number of every municipal_changes row joined
ChainBase(vr) ==
    { [original_bfs |-> vm.bfs, original_name |-> vm.name,
       analysis_bfs |-> vm.bfs, analysis_name |-> vm.name,
       first_appearance |-> vm.first_appearance, depth |-> 0,
       left |-> {}] : vm \in voting_municipalities(vr) }

\* the recursive member without the stop at true splits
ChainJoin_NoSplitStop(r, mch, splits) ==
    /\ r.analysis_bfs = mch.old_bfs_number
    /\ r.depth < MaxDepth
    /\ mch.old_bfs_number # mch.new_bfs_number
    /\ mch.mutation_date >= r.first_appearance

\* the recursive member with depth <= 10 instead of depth < 10
ChainJoin_OffByOne(r, mch, splits) ==
    /\ r.analysis_bfs = mch.old_bfs_number
    /\ r.depth <= MaxDepth
    /\ mch.old_bfs_number # mch.new_bfs_number
    /\ mch.mutation_date >= r.first_appearance
    /\ r.analysis_bfs \notin splits

\* the recursive member with mutation_date > first_appearance
ChainJoin_StrictlyAfter(r, mch, splits) ==
    /\ r.analysis_bfs = mch.old_bfs_number
    /\ r.depth < MaxDepth
    /\ mch.old_bfs_number # mch.new_bfs_number
    /\ mch.mutation_date > r.first_appearance
    /\ r.analysis_bfs \notin splits

\* the recursive member without the restriction to changes of the id
ChainJoin_FollowRenames(r, mch, splits) ==
    /\ r.analysis_bfs = mch.old_bfs_number
    /\ r.depth < MaxDepth
    /\ mch.mutation_date >= r.first_appearance
    /\ r.analysis_bfs \notin splits

\* the WHERE clause of the recursive member
ChainJoin(r, mch, splits) ==
    /\ r.analysis_bfs = mch.old_bfs_number
    /\ r.depth < MaxDepth
    /\ mch.old_bfs_number # mch.new_bfs_number
    /\ mch.mutation_date >= r.first_appearance
    /\ r.analysis_bfs \notin splits

ChainStep(rows, mc, splits) ==
    { [original_bfs |-> p[1].original_bfs,
       original_name |-> p[1].original_name,
       analysis_bfs |-> p[2].new_bfs_number,
       analysis_name |-> p[2].new_name,
       first_appearance |-> p[1].first_appearance,
       depth |-> p[1].depth + 1,
       left |-> p[1].left \cup {p[2].old_bfs_number}] :
      p \in {q \in rows \X mc : ChainJoin(q[1], q[2], splits)} }

RECURSIVE ChainRec(_, _, _)
ChainRec(rows, mc, splits) ==
    IF rows = {} THEN {}
    ELSE rows \cup ChainRec(ChainStep(rows, mc, splits), mc, splits)

merger_chain(mc, vr) ==
    LET splits == true_splits(mc)
    IN  ChainRec(ChainBase(vr), mc, splits)

\* the columns of the final SELECT
MappingRow(r) ==
    [original_bfs |-> r.original_bfs, original_name |-> r.original_name,
     analysis_bfs |-> r.analysis_bfs, analysis_name |-> r.analysis_name,
     first_appearance |-> r.first_appearance, merge_depth |-> r.depth]

\* GROUP BY original_bfs, original_name instead of GROUP BY original_bfs
MappingGroups_ByName(ch) ==
    { {r \in ch : r.original_bfs = k[1] /\ r.original_name = k[2]} :
      k \in {<<r.original_bfs, r.original_name>> : r \in ch} }

\* GROUP BY original_bfs
MappingGroups(ch) ==
    { {r \in ch : r.original_bfs = o} : o \in {r.original_bfs : r \in ch} }

\* the bare columns taken from a row of the least depth of the group
GroupMaxRows_MinDepth(grp) ==
    LET md == Min({r.depth : r \in grp})
    IN  {MappingRow(r) : r \in {x \in grp : x.depth = md}}

\* MAX(depth) with bare columns: the bare columns of a group come from a row
\* of the group that holds the maximum; which one, when several rows hold
\* it, is the engine's choice.  HAVING compares the depth of that same row
\* with the maximum of the group, so it keeps every group.
GroupMaxRows(grp) ==
    LET md == Max({r.depth : r \in grp})
    IN  {MappingRow(r) : r \in {x \in grp : x.depth = md}}

\* every way to take one row of its maximum from each group
RECURSIVE GroupChoices(_)
GroupChoices(groups) ==
    IF groups = {} THEN {{}}
    ELSE LET g == CHOOSE x \in groups : TRUE
         IN  { {row} \cup rest :
               row \in GroupMaxRows(g), rest \in GroupChoices(groups \ {g}) }

\* every result the view can return for the tables mc, vr
StableMappings(mc, vr) == GroupChoices(MappingGroups(merger_chain(mc, vr)))

\* ---------------------------------------- v_municipality_mapping (old view)
SuccessorBase(vr) ==
    { [original_bfs |-> r.geo_id, original_name |-> r.geo_name,
       current_bfs |-> r.geo_id, current_name |-> r.geo_name,
       merge_depth |-> 0] : r \in MunicipalityResults(vr) }

SuccessorJoin(sc, mc) ==
    /\ sc.current_bfs = mc.old_bfs_number
    /\ sc.merge_depth < MergeDepthLimit
    /\ mc.old_bfs_number # mc.new_bfs_number

SuccessorStep(rows, changes) ==
    { [original_bfs |-> p[1].original_bfs,
       original_name |-> p[1].original_name,
       current_bfs |-> p[2].new_bfs_number,
       current_name |-> p[2].new_name,
       merge_depth |-> p[1].merge_depth + 1] :
      p \in {q \in rows \X changes : SuccessorJoin(q[1], q[2])} }

RECURSIVE SuccessorRec(_, _)
SuccessorRec(rows, changes) ==
    IF rows = {} THEN {}
    ELSE rows \cup SuccessorRec(SuccessorStep(rows, changes), changes)

successor_chain(changes, vr) == SuccessorRec(SuccessorBase(vr), changes)

\* the columns of the final SELECT of v_municipality_mapping
SuccessorRow(r) ==
    [original_bfs |-> r.original_bfs, original_name |-> r.original_name,
     current_bfs |-> r.current_bfs, current_name |-> r.current_name,
     total_mergers |-> r.merge_depth]

\* GROUP BY original_bfs
SuccessorGroups(sc) ==
    { {r \in sc : r.original_bfs = o} : o \in {r.original_bfs : r \in sc} }

\* MAX(merge_depth) with bare columns, as in the mapping above
SuccessorMaxRows(grp) ==
    LET md == Max({r.merge_depth : r \in grp})
    IN  {SuccessorRow(r) : r \in {x \in grp : x.merge_depth = md}}

RECURSIVE SuccessorChoices(_)
SuccessorChoices(groups) ==
    IF groups = {} THEN {{}}
    ELSE LET g == CHOOSE x \in groups : TRUE
         IN  { {row} \cup rest :
               row \in SuccessorMaxRows(g),
               rest \in SuccessorChoices(groups \ {g}) }

\* every result v_municipality_mapping can return for the tables
v_municipality_mapping(changes, vr) ==
    SuccessorChoices(SuccessorGroups(successor_chain(changes, vr)))

\* ------------------------------------------------- v_voting_results_current
\* the join on m.current_bfs instead of m.original_bfs
CurrentJoin_OnCurrent(vr, m) ==
    {p \in MunicipalityResults(vr) \X m : p[1].geo_id = p[2].current_bfs}

\* voting_results INNER JOIN v_municipality_mapping, municipality level
CurrentJoin(vr, m) ==
    {p \in MunicipalityResults(vr) \X m : p[1].geo_id = p[2].original_bfs}

CurrentGroupKey(p) == <<p[1].proposal_id, p[2].current_bfs, p[2].current_name>>

\* SUM(vr.col) over the joined rows of one group
RECURSIVE SumCurrent(_, _)
SumCurrent(pairs, col) ==
    IF pairs = {} THEN 0
    ELSE LET p == CHOOSE x \in pairs : TRUE
         IN  p[1][col] + SumCurrent(pairs \ {p}, col)

CurrentRow(k, pairs) ==
    LET ja    == SumCurrent(pairs, "ja_stimmen_absolut")
        valid == SumCurrent(pairs, "gueltige_stimmen")
        cast  == SumCurrent(pairs, "eingelegte_stimmzettel")
        elig  == SumCurrent(pairs, "anzahl_stimmberechtigte")
    IN  [proposal_id |-> k[1], voting_date |-> voting_date(k[1]),
         municipality_id |-> k[2], municipality_name |-> k[3],
         ja_stimmen_absolut |-> ja,
         nein_stimmen_absolut |-> SumCurrent(pairs, "nein_stimmen_absolut"),
         gueltige_stimmen |-> valid, eingelegte_stimmzettel |-> cast,
         anzahl_stimmberechtigte |-> elig,
         ja_prozent |-> IF valid > 0 THEN <<ROUND2(ja, valid)>> ELSE NULL,
         stimmbeteiligung |-> IF elig > 0 THEN <<ROUND2(cast, elig)>> ELSE NULL,
         merged_municipality_count |-> Cardinality({p[1].geo_id : p \in pairs}),
         original_bfs_numbers |-> {p[1].geo_id : p \in pairs}]

v_voting_results_current(vr, m) ==
    LET joined == CurrentJoin(vr, m)
    IN  { CurrentRow(k, {p \in joined : CurrentGroupKey(p) = k}) :
          k \in {CurrentGroupKey(p) : p \in joined} }

\* ------------------------------------------------ v_voting_results_analysis
AdditiveColumns ==
    {"ja_stimmen_absolut", "nein_stimmen_absolut", "gueltige_stimmen",
     "eingelegte_stimmzettel", "anzahl_stimmberechtigte"}

\* the join on m.analysis_bfs instead of m.original_bfs
ResultJoin_OnAnalysis(vr, m) ==
    {p \in MunicipalityResults(vr) \X m : p[1].geo_id = p[2].analysis_bfs}

\* voting_results INNER JOIN v_stable_municipality_mapping, municipality level
ResultJoin(vr, m) ==
    {p \in MunicipalityResults(vr) \X m : p[1].geo_id = p[2].original_bfs}

\* SUM(vr.col) over the joined rows of one group
RECURSIVE SumJoined(_, _)
SumJoined(pairs, col) ==
    IF pairs = {} THEN 0
    ELSE LET p == CHOOSE x \in pairs : TRUE
         IN  p[1][col] + SumJoined(pairs \ {p}, col)

\* the CASE with ELSE 0 instead of ELSE NULL
Ratio_ZeroDefault(num, den) == IF den > 0 THEN <<ROUND2(num, den)>> ELSE <<0>>

\* CASE WHEN den > 0 THEN ROUND(100.0 * num / den, 2) ELSE NULL END
Ratio(num, den) == IF den > 0 THEN <<ROUND2(num, den)>> ELSE NULL

\* ROUND(AVG(vr.ja_stimmen_prozent), 2): the average of the stored
\* percentages instead of the ratio of the sums
ja_prozent_Averaged(pairs) ==
    <<ROUND2(SumJoined(pairs, "ja_stimmen_prozent"), 10000 * Cardinality(pairs))>>

ja_prozent(pairs) ==
    Ratio(SumJoined(pairs, "ja_stimmen_absolut"),
          SumJoined(pairs, "gueltige_stimmen"))

stimmbeteiligung(pairs) ==
    Ratio(SumJoined(pairs, "eingelegte_stimmzettel"),
          SumJoined(pairs, "anzahl_stimmberechtigte"))

\* GROUP BY proposal, m.analysis_bfs, m.analysis_name (the voting and the
\* titles are determined by the proposal)
AnalysisGroupKey(p) == <<p[1].proposal_id, p[2].analysis_bfs, p[2].analysis_name>>

AnalysisRow(k, pairs) ==
    LET ja    == SumJoined(pairs, "ja_stimmen_absolut")
        nein  == SumJoined(pairs, "nein_stimmen_absolut")
        valid == SumJoined(pairs, "gueltige_stimmen")
        cast  == SumJoined(pairs, "eingelegte_stimmzettel")
        elig  == SumJoined(pairs, "anzahl_stimmberechtigte")
    IN  [proposal_id |-> k[1], voting_date |-> voting_date(k[1]),
         municipality_id |-> k[2], municipality_name |-> k[3],
         ja_stimmen_absolut |-> ja, nein_stimmen_absolut |-> nein,
         gueltige_stimmen |-> valid, eingelegte_stimmzettel |-> cast,
         anzahl_stimmberechtigte |-> elig,
         ja_prozent |-> ja_prozent(pairs),
         stimmbeteiligung |-> stimmbeteiligung(pairs),
         source_municipality_count |-> Cardinality({p[1].geo_id : p \in pairs}),
         source_bfs_numbers |-> {p[1].geo_id : p \in pairs}]

v_voting_results_analysis(vr, m) ==
    LET joined == ResultJoin(vr, m)
    IN  { AnalysisRow(k, {p \in joined : AnalysisGroupKey(p) = k}) :
          k \in {AnalysisGroupKey(p) : p \in joined} }

\* ---------------------------------------------- v_municipality_data_quality
\* v_stable_municipality_mapping LEFT JOIN voting_results, GROUP BY
\* m.analysis_bfs, m.analysis_name.  A voting holds one proposal here, so
\* the votings of a group are counted by their proposals.
QualityGroupKey(m) == <<m.analysis_bfs, m.analysis_name>>

QualityRow(k, grp, vr) ==
    [analysis_bfs |-> k[1], analysis_name |-> k[2],
     source_count |-> Cardinality({m.original_bfs : m \in grp}),
     sources |-> {<<m.original_bfs, m.original_name>> : m \in grp},
     first_appearance |-> Min({m.first_appearance : m \in grp}),
     merge_depth |-> Max({m.merge_depth : m \in grp}),
     voting_participation_count |->
         Cardinality({r.proposal_id :
                        r \in {x \in MunicipalityResults(vr) :
                                 \E m \in grp : m.original_bfs = x.geo_id}})]

v_municipality_data_quality(m, vr) ==
    { QualityRow(k, {x \in m : QualityGroupKey(x) = k}, vr) :
      k \in {QualityGroupKey(x) : x \in m} }

\* the statistics query of verify_perfect_matching; SUM and MAX over no row
\* are NULL
statistics(q) ==
    [total_municipalities |-> Cardinality(q),
     analysis_municipalities |-> Cardinality({x.analysis_bfs : x \in q}),
     aggregated_count |->
         IF q = {} THEN NULL
         ELSE <<Cardinality({x \in q : x.source_count > 1})>>,
     max_aggregation |->
         IF q = {} THEN NULL ELSE <<Max({x.source_count : x \in q})>>]

\* ------------------------------------------------- export_municipalities
\* get_all_proposals: the proposals of the database, ORDER BY voting_date,
\* proposal_id
proposals(vr) == {r.proposal_id : r \in vr}

RECURSIVE get_all_proposals(_)
get_all_proposals(ps) ==
    IF ps = {} THEN <<>>
    ELSE LET p == CHOOSE x \in ps : \A y \in ps :
                      \/ voting_date(x) < voting_date(y)
                      \/ voting_date(x) = voting_date(y) /\ x <= y
         IN  <<p>> \o get_all_proposals(ps \ {p})

\* SELECT DISTINCT municipality_id, municipality_name: the base data frame
ExportBase(rows) ==
    { [geo_type |-> "municipality", geo_id |-> a.municipality_id,
       geo_name |-> a.municipality_name, cells |-> <<>>] : a \in rows }

\* the three columns one merge adds to a row of the data frame; src names
\* the row of proposal_data the values come from, so that two rows of the
\* data frame with equal values stay two rows
ExportCell(p, a) ==
    [proposal_id |-> p, ja |-> <<a.ja_stimmen_absolut>>,
     nein |-> <<a.nein_stimmen_absolut>>, pct |-> a.ja_prozent,
     src |-> a.municipality_name]

EmptyCell(p) ==
    [proposal_id |-> p, ja |-> NULL, nein |-> NULL, pct |-> NULL, src |-> NULL]

\* result_df.merge(proposal_data, left_on='geo_id',
\* right_on='municipality_id', how='left') for one proposal
ExportMerge(frame, p, rows) ==
    UNION { LET data == {a \in rows : a.proposal_id = p /\ a.municipality_id = f.geo_id}
            IN  IF data = {}
                THEN {[f EXCEPT !.cells = Append(@, EmptyCell(p))]}
                ELSE {[f EXCEPT !.cells = Append(@, ExportCell(p, a))] : a \in data}
          : f \in frame }

RECURSIVE ExportLoop(_, _, _)
ExportLoop(frame, ps, rows) ==
    IF ps = <<>> THEN frame
    ELSE ExportLoop(ExportMerge(frame, Head(ps), rows), Tail(ps), rows)

export_municipalities(vr, rows) ==
    ExportLoop(ExportBase(rows), get_all_proposals(proposals(vr)), rows)

\* ------------------------------------------------ verify_perfect_matching
Abs(x) == IF x < 0 THEN 0 - x ELSE x

\* original_sums: one row per proposal with municipality-level records
original_sums(vr) ==
    { [proposal_id |-> p,
       original_ja |-> SUM({r \in MunicipalityResults(vr) : r.proposal_id = p},
                           "ja_stimmen_absolut"),
       original_nein |-> SUM({r \in MunicipalityResults(vr) : r.proposal_id = p},
                             "nein_stimmen_absolut")] :
      p \in {r.proposal_id : r \in MunicipalityResults(vr)} }

\* aggregated_sums: one row per proposal with rows in v_voting_results_analysis
aggregated_sums(rows) ==
    { [proposal_id |-> p,
       aggregated_ja |-> SUM({a \in rows : a.proposal_id = p}, "ja_stimmen_absolut"),
       aggregated_nein |-> SUM({a \in rows : a.proposal_id = p}, "nein_stimmen_absolut")] :
      p \in {a.proposal_id : a \in rows} }

\* original_sums INNER JOIN aggregated_sums ... WHERE a difference is above
\* 0.1; the sums are integers, so the test is that of a difference of 1 or
\* more
MismatchRows(vr, rows) ==
    { [proposal_id |-> j[1].proposal_id,
       ja_diff |-> Abs(j[1].original_ja - j[2].aggregated_ja),
       nein_diff |-> Abs(j[1].original_nein - j[2].aggregated_nein)] :
      j \in { q \in original_sums(vr) \X aggregated_sums(rows) :
                /\ q[1].proposal_id = q[2].proposal_id
                /\ \/ Abs(q[1].original_ja - q[2].aggregated_ja) >= 1
                   \/ Abs(q[1].original_nein - q[2].aggregated_nein) >= 1 } }

\* ORDER BY ja_diff DESC LIMIT 10: every result the query can return
MismatchQuery(vr, rows) ==
    LET all == MismatchRows(vr, rows)
    IN  IF Cardinality(all) <= MismatchLimit THEN {all}
        ELSE { T \in SUBSET all :
                 /\ Cardinality(T) = MismatchLimit
                 /\ \A x \in T : \A y \in all \ T : x.ja_diff >= y.ja_diff }

\* ------------------------------------------ cantons, districts, municipalities
\* INSERT OR IGNORE INTO cantons / districts / municipalities: a new row has
\* no dates
InsertOrIgnore(table, id) ==
    IF \E t \in table : t.id = id THEN table
    ELSE table \cup {[id |-> id, first_seen_date |-> NULL, last_seen_date |-> NULL]}

IFNULL(x, y) == IF x = NULL THEN y ELSE x

\* SET first_seen_date = ? without MIN
first_seen_date_Overwrite(old, date) == <<date>>

\* SET first_seen_date = MIN(IFNULL(first_seen_date, ?), ?); the texts
\* 'YYYYMMDD' compare as their dates
first_seen_date(old, date) == <<Min({IFNULL(old, <<date>>)[1], date})>>

\* SET last_seen_date = MAX(IFNULL(last_seen_date, ?), ?)
last_seen_date(old, date) == <<Max({IFNULL(old, <<date>>)[1], date})>>

\* UPDATE ... WHERE canton_id / district_id / municipality_id = ?
SeenUpdate(table, id, date) ==
    { IF t.id = id
      THEN [t EXCEPT !.first_seen_date = first_seen_date(@, date),
                     !.last_seen_date = last_seen_date(@, date)]
      ELSE t : t \in table }

\* the loops of process_voting_file over the units of one level
RECURSIVE ProcessUnits(_, _, _)
ProcessUnits(table, rows, level) ==
    LET todo == {r \in rows : r.geo_level = level}
    IN  IF todo = {} THEN table
        ELSE LET r == CHOOSE x \in todo : TRUE
             IN  ProcessUnits(SeenUpdate(InsertOrIgnore(table, r.geo_id), r.geo_id,
                                         voting_date(r.proposal_id)),
                              rows \ {r}, level)

\* conn.rollback(): what the transaction wrote is gone
Rollback(committed, written) == committed

\* the unit tables of a database that holds the records vr
UnitsIdle(vr) ==
    /\ cantons = ProcessUnits({}, vr, "canton")
    /\ districts = ProcessUnits({}, vr, "district")
    /\ municipalities = ProcessUnits({}, vr, "municipality")

\* ---------------------------------------------------------------- actions
\* no run of the views script and no export
RunIdle ==
    /\ pc = "idle"
    /\ views_exist = FALSE
    /\ aggregated = {}
    /\ mismatches = NULL
    /\ exit_code = NULL
    /\ exported = NULL

\* no import run and no reader
ImportIdle ==
    /\ df = <<>>
    /\ idx = 0
    /\ ipc = "idle"
    /\ table_exists = TRUE
    /\ pending = {}
    /\ counts = [success_count |-> 0, error_count |-> 0]
    /\ json_files = <<>>
    /\ file_counts = [success_count |-> 0, error_count |-> 0]
    /\ export_reads = <<>>

Init ==
    /\ municipal_changes = {}
    /\ voting_results = {}
    /\ v_stable_municipality_mapping = {}
    /\ RunIdle
    /\ ImportIdle
    /\ UnitsIdle({})

\* one INSERT INTO municipal_changes
import_municipal_changes(rows) ==
    /\ Cardinality(municipal_changes) < MaxChanges
    /\ \E row \in rows \ municipal_changes :
          municipal_changes' = municipal_changes \cup {row}
    /\ v_stable_municipality_mapping' \in StableMappings(municipal_changes', voting_results)
    /\ UNCHANGED <<voting_results, run_vars, import_vars,
                   unit_vars>>

\* one INSERT INTO voting_results, with the unit of the record seen at its
\* voting date
process_voting_file(rows) ==
    /\ Cardinality(voting_results) < MaxResults
    /\ \E row \in rows \ voting_results :
          voting_results' = voting_results \cup {row}
    /\ cantons' = ProcessUnits(cantons, voting_results' \ voting_results, "canton")
    /\ districts' = ProcessUnits(districts, voting_results' \ voting_results, "district")
    /\ municipalities' =
          ProcessUnits(municipalities, voting_results' \ voting_results, "municipality")
    /\ v_stable_municipality_mapping' \in StableMappings(municipal_changes, voting_results')
    /\ UNCHANGED <<municipal_changes, run_vars, import_vars>>

\* another read of the view against unchanged tables
read_stable_municipality_mapping ==
    /\ v_stable_municipality_mapping' \in StableMappings(municipal_changes, voting_results)
    /\ UNCHANGED <<municipal_changes, voting_results, run_vars, import_vars,
                   unit_vars>>

Next ==
    \/ import_municipal_changes(LedgerRows)
    \/ process_voting_file(ResultRows)
    \/ read_stable_municipality_mapping

Spec == Init /\ [][Next]_vars

NextAgg ==
    \/ import_municipal_changes(AggLedgerRows)
    \/ process_voting_file(AggResultRows)
    \/ read_stable_municipality_mapping

SpecAgg == Init /\ [][NextAgg]_vars

\* ------------------------------------- main of create_analysis_views.py
\* create_stable_municipality_mapping, create_analysis_ready_results_view,
\* create_data_quality_view and create_indexes: each view is dropped,
\* created and committed, so the views are readable from here on
main_create_views ==
    /\ pc = "start"
    /\ pc' = "verify"
    /\ views_exist' = TRUE
    /\ v_stable_municipality_mapping' \in StableMappings(municipal_changes, voting_results)
    /\ UNCHANGED <<municipal_changes, voting_results, aggregated, mismatches,
                   exit_code, exported, import_vars,
                   unit_vars>>

\* verify_perfect_matching over the rows its query reads from
\* v_voting_results_analysis: the result of the query is logged, nothing
\* else depends on it
verify_perfect_matching(rows) ==
    /\ pc = "verify"
    /\ pc' = "examples"
    /\ \E result \in MismatchQuery(voting_results, rows) :
          mismatches' = <<{x.proposal_id : x \in result}>>
    /\ UNCHANGED <<municipal_changes, voting_results,
                   v_stable_municipality_mapping, views_exist, aggregated,
                   exit_code, exported, import_vars,
                   unit_vars>>

\* the examples, conn.close(), the SUCCESS banner and return 0
main_return ==
    /\ pc = "examples"
    /\ pc' = "done"
    /\ exit_code' = <<0>>
    /\ UNCHANGED <<municipal_changes, voting_results,
                   v_stable_municipality_mapping, views_exist, aggregated,
                   mismatches, exported, import_vars,
                   unit_vars>>

\* main of 00_export_voting_data_csv.py, run once: export_municipalities
\* reads v_voting_results_analysis; without the view the query raises and
\* main returns 1.  verdict records whether the check had produced its
\* result when the export read the view.
export_main ==
    /\ pc # "idle"
    /\ exported = NULL
    /\ IF views_exist
       THEN \E m \in StableMappings(municipal_changes, voting_results) :
              exported' =
                <<[frame |-> export_municipalities(voting_results,
                               v_voting_results_analysis(voting_results, m)),
                   failed |-> FALSE, verdict |-> mismatches # NULL]>>
       ELSE exported' = <<[frame |-> {}, failed |-> TRUE,
                           verdict |-> mismatches # NULL]>>
    /\ UNCHANGED <<municipal_changes, voting_results,
                   v_stable_municipality_mapping, pc, views_exist, aggregated,
                   mismatches, exit_code, import_vars,
                   unit_vars>>

\* a run of the views script and of the export on a database the import
\* left behind
InitRun ==
    /\ municipal_changes \in SubsetsUpTo(RunLedgerRows, MaxRunChanges)
    /\ voting_results \in SubsetsUpTo(RunResultRows, MaxRunResults)
    /\ v_stable_municipality_mapping = {}
    /\ pc = "start"
    /\ views_exist = FALSE
    /\ aggregated = {}
    /\ mismatches = NULL
    /\ exit_code = NULL
    /\ exported = NULL
    /\ ImportIdle
    /\ UnitsIdle(voting_results)

NextRun ==
    \/ main_create_views
    \/ \E m \in StableMappings(municipal_changes, voting_results) :
          verify_perfect_matching(v_voting_results_analysis(voting_results, m))
    \/ main_return
    \/ export_main

SpecRun == InitRun /\ [][NextRun]_vars

\* the conservation check as a function of the two relations its query
\* compares: the municipality-level records and the rows it reads from
\* v_voting_results_analysis, each drawn on its own
InitVerify ==
    /\ municipal_changes = {}
    /\ voting_results \in SubsetsUpTo(CheckResultRows, MaxCheckRows)
    /\ v_stable_municipality_mapping \in StableMappings({}, voting_results)
    /\ aggregated \in
          UNION { {v_voting_results_analysis(src, m) : m \in StableMappings({}, src)} :
                  src \in SubsetsUpTo(CheckResultRows, MaxCheckRows) }
    /\ pc = "verify"
    /\ views_exist = TRUE
    /\ mismatches = NULL
    /\ exit_code = NULL
    /\ exported = NULL
    /\ ImportIdle
    /\ UnitsIdle(voting_results)

NextVerify ==
    \/ verify_perfect_matching(aggregated)
    \/ main_return

SpecVerify == InitVerify /\ [][NextVerify]_vars

\* analyze_changes of scripts/import_municipal_changes.py, over the rows of
\* the data frame: df.groupby('new_bfs_number').size(), the index of the
\* counts above 1, and isin
merger_counts(frame) ==
    [k \in {frame[i].new_bfs_number : i \in 1..Len(frame)} |->
        Cardinality({i \in 1..Len(frame) : frame[i].new_bfs_number = k})]

\* the index of the counts of at least 1
merger_bfs_AtLeastOne(frame) ==
    {k \in DOMAIN merger_counts(frame) : merger_counts(frame)[k] >= 1}

merger_bfs(frame) ==
    {k \in DOMAIN merger_counts(frame) : merger_counts(frame)[k] > 1}

is_merger(rec, frame) == rec.new_bfs_number \in merger_bfs(frame)

split_counts(frame) ==
    [k \in {frame[i].old_bfs_number : i \in 1..Len(frame)} |->
        Cardinality({i \in 1..Len(frame) : frame[i].old_bfs_number = k})]

split_bfs(frame) ==
    {k \in DOMAIN split_counts(frame) : split_counts(frame)[k] > 1}

is_split(rec, frame) == rec.old_bfs_number \in split_bfs(frame)

\* the same pass in import_municipal_changes of 00_import_all_data.py
ImportAll_merger_bfs(frame) ==
    LET ImportAll_merger_counts ==
            [k \in {frame[i].new_bfs_number : i \in 1..Len(frame)} |->
                Cardinality({i \in 1..Len(frame) : frame[i].new_bfs_number = k})]
    IN  {k \in DOMAIN ImportAll_merger_counts : ImportAll_merger_counts[k] > 1}

ImportAll_is_merger(rec, frame) == rec.new_bfs_number \in ImportAll_merger_bfs(frame)

ImportAll_split_bfs(frame) ==
    LET ImportAll_split_counts ==
            [k \in {frame[i].old_bfs_number : i \in 1..Len(frame)} |->
                Cardinality({i \in 1..Len(frame) : frame[i].old_bfs_number = k})]
    IN  {k \in DOMAIN ImportAll_split_counts : ImportAll_split_counts[k] > 1}

ImportAll_is_split(rec, frame) == rec.old_bfs_number \in ImportAll_split_bfs(frame)

\* ------------------------------------ scripts/import_municipal_changes.py
\* the mutation_date column is converted with strftime('%Y%m%d') only when
\* its dtype is datetime, that is when every cell is a date
DateColumnIsDatetime(frame) ==
    \A i \in 1..Len(frame) : frame[i].mutation_date # UnparseableDate

\* the values of one INSERT: the cells and the flags of the analysis as
\* they are; a date of a column that
\* was not converted is bound as a datetime object
InsertedRow(rec, frame) ==
    [old_bfs_number |-> rec.old_bfs_number,
     new_bfs_number |-> rec.new_bfs_number,
     new_name |-> rec.new_name,
     mutation_date |->
         IF DateColumnIsDatetime(frame) \/ rec.mutation_date = UnparseableDate
         THEN rec.mutation_date
         ELSE IsoText(rec.mutation_date),
     is_merger |-> is_merger(rec, frame),
     is_split |-> is_split(rec, frame)]

\* create_database_table: DROP TABLE IF EXISTS runs outside a transaction
\* and is in effect at once
create_database_table_drop ==
    /\ ipc = "start"
    /\ ipc' = "dropped"
    /\ table_exists' = FALSE
    /\ municipal_changes' = {}
    /\ UNCHANGED <<voting_results, v_stable_municipality_mapping, run_vars,
                   df, idx, pending, counts, json_files, file_counts,
                   export_reads,
                   unit_vars>>

\* create_database_table: CREATE TABLE and conn.commit()
create_database_table_create ==
    /\ ipc = "dropped"
    /\ ipc' = "insert"
    /\ table_exists' = TRUE
    /\ idx' = 1
    /\ UNCHANGED <<municipal_changes, voting_results,
                   v_stable_municipality_mapping, run_vars, df, pending,
                   counts, json_files, file_counts, export_reads,
                   unit_vars>>

\* the loop ends at the first record whose insert raises
ExceptRow_Abort(i, n) == n + 1

\* except Exception: error_count += 1 and the loop goes on with the next
\* record
ExceptRow(i, n) == i + 1

\* import_to_database: one pass of the loop over the records
import_to_database_row ==
    /\ ipc = "insert"
    /\ idx <= Len(df)
    /\ IF df[idx].bindable
       THEN /\ pending' = pending \cup {InsertedRow(df[idx], df)}
            /\ counts' = [counts EXCEPT !.success_count = @ + 1]
            /\ idx' = idx + 1
       ELSE /\ counts' = [counts EXCEPT !.error_count = @ + 1]
            /\ idx' = ExceptRow(idx, Len(df))
            /\ UNCHANGED pending
    /\ UNCHANGED <<municipal_changes, voting_results,
                   v_stable_municipality_mapping, run_vars, df, ipc,
                   table_exists, json_files, file_counts, export_reads,
                   unit_vars>>

\* import_to_database: conn.commit() after the loop, and the return
import_to_database_commit ==
    /\ ipc = "insert"
    /\ idx > Len(df)
    /\ ipc' = "done"
    /\ municipal_changes' = pending
    /\ pending' = {}
    /\ UNCHANGED <<voting_results, v_stable_municipality_mapping, run_vars,
                   df, idx, table_exists, counts, json_files, file_counts,
                   export_reads,
                   unit_vars>>

\* import_voting_data: one pass of the loop over the files.
\* process_voting_file writes the units and the rows of the file in one
\* transaction and commits at its end; an exception, after any part of the
\* rows, is caught and the transaction rolled back.
import_voting_data_file ==
    LET i == file_counts.success_count + file_counts.error_count + 1
    IN  /\ i <= Len(json_files)
        /\ IF json_files[i].fails
           THEN /\ file_counts' = [file_counts EXCEPT !.error_count = @ + 1]
                /\ \E written \in SUBSET json_files[i].rows :
                      /\ voting_results' =
                            Rollback(voting_results, voting_results \cup written)
                      /\ cantons' =
                            Rollback(cantons, ProcessUnits(cantons, written, "canton"))
                      /\ districts' =
                            Rollback(districts,
                                     ProcessUnits(districts, written, "district"))
                      /\ municipalities' =
                            Rollback(municipalities,
                                     ProcessUnits(municipalities, written, "municipality"))
           ELSE /\ file_counts' = [file_counts EXCEPT !.success_count = @ + 1]
                /\ voting_results' = voting_results \cup json_files[i].rows
                /\ cantons' = ProcessUnits(cantons, json_files[i].rows, "canton")
                /\ districts' = ProcessUnits(districts, json_files[i].rows, "district")
                /\ municipalities' =
                      ProcessUnits(municipalities, json_files[i].rows, "municipality")
        /\ UNCHANGED <<municipal_changes, v_stable_municipality_mapping,
                       run_vars, df, idx, ipc, table_exists, pending, counts,
                       json_files, export_reads>>

\* one query of a reader on its own connection: it finds what is committed
read_ledger ==
    /\ Len(export_reads) < MaxReads
    /\ export_reads' =
          Append(export_reads,
                 [exists |-> table_exists, rows |-> municipal_changes])
    /\ UNCHANGED <<municipal_changes, voting_results,
                   v_stable_municipality_mapping, run_vars, df, idx, ipc,
                   table_exists, pending, counts, json_files, file_counts,
                   unit_vars>>

InitImport ==
    /\ municipal_changes = OldLedger
    /\ voting_results = {}
    /\ v_stable_municipality_mapping = {}
    /\ RunIdle
    /\ df \in SeqsUpTo(RawRecords, MaxBatch)
    /\ idx = 0
    /\ ipc = "start"
    /\ table_exists = TRUE
    /\ pending = {}
    /\ counts = [success_count |-> 0, error_count |-> 0]
    /\ json_files \in SeqsUpTo(VotingFiles, MaxFiles)
    /\ file_counts = [success_count |-> 0, error_count |-> 0]
    /\ export_reads = <<>>
    /\ UnitsIdle({})

NextImport ==
    \/ create_database_table_drop
    \/ create_database_table_create
    \/ import_to_database_row
    \/ import_to_database_commit
    \/ import_voting_data_file
    \/ read_ledger

SpecImport == InitImport /\ [][NextImport]_vars

\* ------------------------------------------------------- the current state
\* the rows of merger_chain and of the aggregated view over the current
\* tables and the mapping the latest read returned
chain == merger_chain(municipal_changes, voting_results)
analysis_rows == v_voting_results_analysis(voting_results, v_stable_municipality_mapping)
results_m == MunicipalityResults(voting_results)
quality_rows ==
    v_municipality_data_quality(v_stable_municipality_mapping, voting_results)
stats == statistics(quality_rows)


\* the ids a row of merger_chain went through: those it left and its last
PathIds(r) == r.left \cup {r.analysis_bfs}

Seeds == {r.geo_id : r \in results_m}

\* ----------------------------------------------------------------- claims

\* C1: the mapping holds exactly one row for every municipality-level id of
\* the measurement records, and no row for any other id, also for an id
\* recorded under several names or with several outgoing edges.
C1_OneRowPerOriginal ==
    /\ \A g \in Seeds :
          Cardinality({m \in v_stable_municipality_mapping : m.original_bfs = g}) = 1
    /\ \A m \in v_stable_municipality_mapping : m.original_bfs \in Seeds

C1_Witness ==
    \E g \in Seeds :
        /\ Cardinality({r.geo_name : r \in {x \in results_m : x.geo_id = g}}) = 2
        /\ Cardinality({c.new_bfs_number :
                          c \in {x \in municipal_changes :
                                   /\ x.old_bfs_number = g
                                   /\ x.new_bfs_number # g}}) = 2
        /\ \E m \in v_stable_municipality_mapping :
              m.original_bfs = g /\ m.merge_depth > 0

\* C3: for every proposal and every additive count, the total over the
\* aggregated rows equals the total over the municipality-level records.
C3_Conservation ==
    LET rows == analysis_rows
        recs == results_m
    IN  \A p \in Proposals : \A col \in AdditiveColumns :
            SUM({a \in rows : a.proposal_id = p}, col)
              = SUM({r \in recs : r.proposal_id = p}, col)

C3_Witness ==
    /\ \E a \in analysis_rows :
          (a.source_municipality_count = 2 /\ a.ja_stimmen_absolut = 100)
    /\ \E m \in v_stable_municipality_mapping : m.merge_depth = MaxDepth

\* C4: no row of merger_chain was reached over an edge that leaves a true
\* split origin, and a resolution path that goes through a true split
\* origin ends there.
C4_SplitFreeze ==
    LET ch     == chain
        splits == true_splits(municipal_changes)
    IN  /\ \A r \in ch : r.left \cap splits = {}
        /\ \A m \in v_stable_municipality_mapping : \A r \in ch :
              MappingRow(r) = m =>
                  \A t \in PathIds(r) \cap splits : m.analysis_bfs = t

C4_Witness ==
    \E m \in v_stable_municipality_mapping :
        /\ m.merge_depth >= 1
        /\ m.analysis_bfs \in true_splits(municipal_changes)
        /\ \E c \in municipal_changes :
              /\ c.old_bfs_number = m.analysis_bfs
              /\ c.new_bfs_number # m.analysis_bfs
              /\ c.mutation_date >= m.first_appearance

\* C5: no resolution follows more than 10 edges, in the mapping view and
\* in the older successor view, and no mapping row has a depth above 10.
C5_DepthBound ==
    /\ \A r \in chain : r.depth <= 10
    /\ \A m \in v_stable_municipality_mapping : m.merge_depth <= 10
    /\ \A r \in successor_chain(municipal_changes, voting_results) :
          r.merge_depth <= 10

C5_Witness ==
    \E m \in v_stable_municipality_mapping :
        /\ m.merge_depth = 10
        /\ \E c \in municipal_changes :
              /\ c.new_bfs_number = m.original_bfs
              /\ c.old_bfs_number # m.original_bfs


\* C2: for every proposal and every analysis id with mapped records of that
\* proposal, the aggregated view holds one row for the pair, and each
\* additive count of the row is the sum over the proposal's records of all
\* original ids mapped to the analysis id.
MappedRecords(p, a) ==
    {r \in results_m :
        /\ r.proposal_id = p
        /\ \E m \in v_stable_municipality_mapping :
              m.original_bfs = r.geo_id /\ m.analysis_bfs = a}

C2_GroupSums ==
    \A p \in Proposals : \A a \in Ids :
        MappedRecords(p, a) # {} =>
            LET rows == {x \in analysis_rows :
                           x.proposal_id = p /\ x.municipality_id = a}
            IN  /\ Cardinality(rows) = 1
                /\ \A x \in rows : \A col \in AdditiveColumns :
                      x[col] = SUM(MappedRecords(p, a), col)

\* C6: the records of a seed whose traversal reached the step bound are in
\* no aggregated row.
C6_HaltedExcluded ==
    \A m \in v_stable_municipality_mapping :
        m.merge_depth = MaxDepth =>
            \A a \in analysis_rows :
                m.original_bfs \notin a.source_bfs_numbers

\* C7: a second read of the mapping against unchanged tables gives every
\* seed the analysis id and the depth of the first read.
C7_Idempotent ==
    [][ UNCHANGED <<municipal_changes, voting_results>> =>
          \A m1 \in v_stable_municipality_mapping :
          \A m2 \in v_stable_municipality_mapping' :
              m1.original_bfs = m2.original_bfs =>
                  /\ m1.analysis_bfs = m2.analysis_bfs
                  /\ m1.merge_depth = m2.merge_depth ]_vars

\* C8: a seed that starts a linear chain of k eligible structural edges,
\* none leaving a true split origin, maps to the last id of the chain with
\* depth k, and in a proposal where only this seed has records the
\* aggregated totals of that id are the seed's totals.
FirstAppearance(g) ==
    Min({voting_date(r.proposal_id) : r \in {x \in results_m : x.geo_id = g}})

EligibleEdges(x, g) ==
    {c \in municipal_changes :
        /\ c.old_bfs_number = x
        /\ c.new_bfs_number # x
        /\ c.mutation_date >= FirstAppearance(g)}

IsTrueSplitOrigin(x) ==
    \E c1 \in municipal_changes, c2 \in municipal_changes :
        /\ c1.old_bfs_number = x /\ c2.old_bfs_number = x
        /\ c1.new_bfs_number # x /\ c2.new_bfs_number # x
        /\ c1.new_bfs_number # c2.new_bfs_number
        /\ c1.mutation_date = c2.mutation_date

NoChain == "none"

\* the end and the length of the linear chain of g, <<NoChain, 0>> when the
\* edges from g branch, close a cycle or leave a true split origin
RECURSIVE LinearChain(_, _, _, _)
LinearChain(x, g, visited, k) ==
    LET e == EligibleEdges(x, g)
    IN  IF e = {} THEN <<x, k>>
        ELSE IF Cardinality(e) > 1 \/ IsTrueSplitOrigin(x) THEN <<NoChain, 0>>
        ELSE LET c == CHOOSE y \in e : TRUE
             IN  IF c.new_bfs_number \in visited THEN <<NoChain, 0>>
                 ELSE LinearChain(c.new_bfs_number, g,
                                  visited \cup {c.new_bfs_number}, k + 1)

C8_LinearChain ==
    LET rows == analysis_rows
    IN
    \A g \in Seeds :
        LET lc == LinearChain(g, g, {g}, 0)
        IN  (lc[1] # NoChain /\ lc[2] >= 1 /\ lc[2] <= 10) =>
              /\ \A m \in v_stable_municipality_mapping :
                    m.original_bfs = g =>
                        m.analysis_bfs = lc[1] /\ m.merge_depth = lc[2]
              /\ \A p \in Proposals :
                    LET recs == {r \in results_m : r.proposal_id = p}
                    IN  (recs # {} /\ \A r \in recs : r.geo_id = g) =>
                          /\ Cardinality({a \in rows : a.proposal_id = p}) = 1
                          /\ \A a \in rows :
                                a.proposal_id = p =>
                                    /\ a.municipality_id = lc[1]
                                    /\ \A col \in AdditiveColumns :
                                          a[col] = SUM(recs, col)

C8_Witness ==
    \E g \in Seeds :
        /\ LinearChain(g, g, {g}, 0)[1] # NoChain
        /\ LinearChain(g, g, {g}, 0)[2] = 2
        /\ \E a \in analysis_rows :
              /\ a.source_bfs_numbers = {g}
              /\ a.municipality_id = LinearChain(g, g, {g}, 0)[1]
              /\ a.ja_stimmen_absolut > 0

\* C9: in every aggregated row the yes-share and the turnout are the
\* ratios of the row's summed counts, in percent and rounded to 2 decimals
\* (half away from zero); 100 yes of 1000 valid votes give 10.00.
IsRoundedPercent(pct, num, den) ==
    /\ pct # NULL
    /\ 2 * (pct[1] * den - 10000 * num) <= den
    /\ 2 * (10000 * num - pct[1] * den) < den

C9_RatiosFromSums ==
    \A a \in analysis_rows :
        /\ a.gueltige_stimmen > 0 =>
              IsRoundedPercent(a.ja_prozent, a.ja_stimmen_absolut, a.gueltige_stimmen)
        /\ a.anzahl_stimmberechtigte > 0 =>
              IsRoundedPercent(a.stimmbeteiligung, a.eingelegte_stimmzettel,
                               a.anzahl_stimmberechtigte)
        /\ (a.ja_stimmen_absolut = 100 /\ a.gueltige_stimmen = 1000) =>
              a.ja_prozent = <<1000>>

C9_Witness ==
    \E a \in analysis_rows :
        /\ a.source_bfs_numbers = {"A", "B"}
        /\ a.ja_stimmen_absolut = 100 /\ a.gueltige_stimmen = 1000
        /\ a.ja_prozent = <<1000>> /\ a.stimmbeteiligung = <<8333>>

\* C10: a ratio whose summed denominator is zero is null, and the row of
\* every municipality-level record is produced with its summed counts.
C10_NullRatio ==
    /\ \A a \in analysis_rows :
          /\ a.gueltige_stimmen = 0 => a.ja_prozent = NULL
          /\ a.anzahl_stimmberechtigte = 0 => a.stimmbeteiligung = NULL
    /\ \A r \in results_m :
          \E a \in analysis_rows :
              /\ a.proposal_id = r.proposal_id
              /\ r.geo_id \in a.source_bfs_numbers
              /\ \A col \in AdditiveColumns : a[col] \in Nat

C10_Witness ==
    /\ \E a \in analysis_rows :
          /\ a.gueltige_stimmen = 0 /\ a.ja_prozent = NULL
          /\ a.eingelegte_stimmzettel = 3 /\ a.stimmbeteiligung = <<4286>>
    /\ \E b \in analysis_rows :
          b.anzahl_stimmberechtigte = 0 /\ b.stimmbeteiligung = NULL

\* C11: in every aggregated row the source id list is the set of the
\* original ids mapped to the row's analysis id that have a record for the
\* row's proposal, and the source count is the size of that set.
C11_SourceList ==
    \A a \in analysis_rows :
        LET src == {r.geo_id : r \in MappedRecords(a.proposal_id, a.municipality_id)}
        IN  /\ a.source_bfs_numbers = src
            /\ a.source_municipality_count = Cardinality(src)

\* C16: a seed whose traversal reaches an id with two eligible structural
\* edges to different new ids that is no true split origin has no row in
\* the mapping: it is excluded, and no branch is taken as its analysis id.
ConflictingEdges(x, first) ==
    /\ x \notin true_splits(municipal_changes)
    /\ \E c1 \in municipal_changes, c2 \in municipal_changes :
          /\ c1.old_bfs_number = x /\ c2.old_bfs_number = x
          /\ c1.new_bfs_number # x /\ c2.new_bfs_number # x
          /\ c1.new_bfs_number # c2.new_bfs_number
          /\ c1.mutation_date >= first /\ c2.mutation_date >= first

C16_ConflictExcluded ==
    \A r \in chain :
        (r.depth < MaxDepth /\ ConflictingEdges(r.analysis_bfs, r.first_appearance)) =>
            \A m \in v_stable_municipality_mapping :
                m.original_bfs # r.original_bfs

\* C17: the municipality export holds one row per analysis id, and every
\* row holds three columns for every proposal.
export_rows == export_municipalities(voting_results, analysis_rows)

C17_ExportShape ==
    LET frame == export_rows
    IN  /\ \A a \in analysis_rows :
              Cardinality({f \in frame : f.geo_id = a.municipality_id}) = 1
        /\ \A f \in frame :
              /\ Len(f.cells) = Cardinality(proposals(voting_results))
              /\ \A i \in 1..Len(f.cells) :
                    DOMAIN f.cells[i] = {"proposal_id", "ja", "nein", "pct", "src"}

C14_VerdictBeforeRead ==
    (exported # NULL /\ exported[1].frame # {}) => exported[1].verdict

\* C15: when some of the original ids mapped to an analysis id have no
\* record for a proposal and others have, the view holds one row for the
\* analysis id and the proposal, with the sums over the records of the
\* others.
MappedIds(a) ==
    {m.original_bfs : m \in {x \in v_stable_municipality_mapping : x.analysis_bfs = a}}

C15_MissingIsZero ==
    \A p \in Proposals : \A a \in Ids :
        LET recs == MappedRecords(p, a)
            have == {r.geo_id : r \in recs}
            rows == {x \in analysis_rows :
                       x.proposal_id = p /\ x.municipality_id = a}
        IN  (have # {} /\ MappedIds(a) \ have # {}) =>
                /\ Cardinality(rows) = 1
                /\ \A x \in rows : \A col \in AdditiveColumns :
                      x[col] = SUM(recs, col)

\* C18: no row of the stored ledger holds an id or a date that cannot be
\* parsed.
C18_MalformedExcluded ==
    \A c \in municipal_changes :
        /\ c.old_bfs_number # UnparseableId
        /\ c.new_bfs_number # UnparseableId
        /\ c.mutation_date # UnparseableDate

\* C19: the insert loop attempts every record: the counters add up to the
\* number of records attempted so far and at the return to the number of
\* records, and every record whose insert does not raise is stored; the
\* file loop likewise attempts every file, and the rows of every file that
\* does not fail are stored.
C19_BatchContinues ==
    /\ ipc = "insert" =>
          counts.success_count + counts.error_count = idx - 1
    /\ ipc = "done" =>
          /\ counts.success_count + counts.error_count = Len(df)
          /\ \A i \in 1..Len(df) :
                df[i].bindable => InsertedRow(df[i], df) \in municipal_changes
    /\ \A i \in 1..(file_counts.success_count + file_counts.error_count) :
          ~ json_files[i].fails => json_files[i].rows \subseteq voting_results
    /\ file_counts.success_count + file_counts.error_count <= Len(json_files)

C19_Witness ==
    /\ ipc = "done"
    /\ Len(df) = 2 /\ ~ df[1].bindable /\ df[2].bindable
    /\ counts = [success_count |-> 1, error_count |-> 1]
    /\ Len(json_files) = 2 /\ json_files[1].fails /\ ~ json_files[2].fails
    /\ file_counts = [success_count |-> 1, error_count |-> 1]
    /\ json_files[2].rows \subseteq voting_results

\* C20: every query of the reader finds the ledger of before the import or
\* the ledger of after it, and the queries of one run find the same ledger.
NewLedger == {InsertedRow(df[i], df) : i \in {j \in 1..Len(df) : df[j].bindable}}

C20_ConsistentSnapshot ==
    /\ \A i \in 1..Len(export_reads) :
          /\ export_reads[i].exists
          /\ export_reads[i].rows \in {OldLedger, NewLedger}
    /\ \A i \in 1..Len(export_reads) : \A j \in 1..Len(export_reads) :
          export_reads[i] = export_reads[j]


\* C21: the statistics of the data-quality view give the number of analysis
\* ids that more than one original id is mapped to and the largest number
\* of original ids mapped to one analysis id, as the mapping itself gives
\* them.
OriginalsOf(a) ==
    {m.original_bfs : m \in {x \in v_stable_municipality_mapping : x.analysis_bfs = a}}

AnalysisIds == {m.analysis_bfs : m \in v_stable_municipality_mapping}

C21_QualityReport ==
    v_stable_municipality_mapping # {} =>
        /\ stats.aggregated_count =
              <<Cardinality({a \in AnalysisIds : Cardinality(OriginalsOf(a)) > 1})>>
        /\ stats.max_aggregation =
              <<Max({Cardinality(OriginalsOf(a)) : a \in AnalysisIds})>>


\* C22: for every voting, the yes total and the no total over the rows of
\* v_voting_results_current are the totals over the municipality-level
\* records of the voting, whatever the ledger holds and whichever rows
\* v_municipality_mapping returns.
old_mappings == v_municipality_mapping(municipal_changes, voting_results)

C22_CurrentTotals ==
    \A m \in old_mappings :
        LET rows == v_voting_results_current(voting_results, m)
        IN  \A p \in Proposals :
              /\ SUM({x \in rows : x.proposal_id = p}, "ja_stimmen_absolut") =
                    SUM({r \in results_m : r.proposal_id = p}, "ja_stimmen_absolut")
              /\ SUM({x \in rows : x.proposal_id = p}, "nein_stimmen_absolut") =
                    SUM({r \in results_m : r.proposal_id = p}, "nein_stimmen_absolut")

\* two recorded municipalities with different counts in one voting, one
\* merged into the other by the old mapping
C22_Witness ==
    \E m \in old_mappings : \E x \in v_voting_results_current(voting_results, m) :
        /\ x.merged_municipality_count = 2
        /\ x.ja_stimmen_absolut > 0
        /\ \E r \in m : r.original_bfs # r.current_bfs /\ r.current_bfs = x.municipality_id


\* C23: every stored record carries is_merger exactly when at least two
\* records of the file share its new id and is_split exactly when at least
\* two share its old id, and the classification pass of either import path
\* gives every record of the file these flags.
SharesNewId(rec) ==
    \E i \in 1..Len(df), j \in 1..Len(df) :
        /\ i # j
        /\ df[i].new_bfs_number = rec.new_bfs_number
        /\ df[j].new_bfs_number = rec.new_bfs_number

SharesOldId(rec) ==
    \E i \in 1..Len(df), j \in 1..Len(df) :
        /\ i # j
        /\ df[i].old_bfs_number = rec.old_bfs_number
        /\ df[j].old_bfs_number = rec.old_bfs_number

C23_Flags ==
    /\ ipc # "start" =>
          \A r \in pending \cup municipal_changes :
              /\ r.is_merger <=> SharesNewId(r)
              /\ r.is_split <=> SharesOldId(r)
    /\ \A i \in 1..Len(df) :
          /\ ImportAll_is_merger(df[i], df) <=> SharesNewId(df[i])
          /\ ImportAll_is_split(df[i], df) <=> SharesOldId(df[i])

\* a stored record that shares its new id with a record of the file and
\* its old id with none
C23_Witness ==
    /\ ipc = "done"
    /\ \E r \in municipal_changes : r.is_merger /\ ~ r.is_split


\* C24 as stated: an old id is in the true-split-origin set exactly when two
\* records of the ledger share it and their mutation date.
SharesOldIdAndDate(x) ==
    \E c1 \in municipal_changes, c2 \in municipal_changes :
        /\ c1 # c2
        /\ c1.old_bfs_number = x /\ c2.old_bfs_number = x
        /\ c1.mutation_date = c2.mutation_date

C24_TrueSplitSet ==
    \A x \in Ids : x \in true_splits(municipal_changes) <=> SharesOldIdAndDate(x)

\* C24 as amended: an old id is in the true-split-origin set exactly when
\* two structural records (old id different from new id) share it and their
\* mutation date and lead to different new ids; an old id whose records all
\* carry different dates is not in the set, and every row of the traversal
\* at such an id below the step bound goes on over each of its eligible
\* edges.
C24_TrueSplitSetAmended ==
    LET ch == chain
        splits == true_splits(municipal_changes)
    IN  \A x \in Ids :
          /\ x \in splits <=> IsTrueSplitOrigin(x)
          /\ ~ SharesOldIdAndDate(x) =>
                /\ x \notin splits
                /\ \A r \in ch : \A c \in municipal_changes :
                      ( /\ r.analysis_bfs = x
                        /\ r.depth < MaxDepth
                        /\ c.old_bfs_number = x
                        /\ c.new_bfs_number # x
                        /\ c.mutation_date >= r.first_appearance )
                      => \E r2 \in ch :
                            /\ r2.original_bfs = r.original_bfs
                            /\ r2.original_name = r.original_name
                            /\ r2.analysis_bfs = c.new_bfs_number
                            /\ r2.depth = r.depth + 1

\* a seed whose two structural records carry different dates, followed
\* over both
C24_Witness ==
    \E x \in Seeds :
        /\ \E c1 \in municipal_changes, c2 \in municipal_changes :
              /\ c1.old_bfs_number = x /\ c2.old_bfs_number = x
              /\ c1.new_bfs_number # x /\ c2.new_bfs_number # x
              /\ c1.mutation_date # c2.mutation_date
              /\ \E r1 \in chain, r2 \in chain :
                    /\ r1.original_bfs = x /\ r2.original_bfs = x
                    /\ r1.depth = 1 /\ r2.depth = 1
                    /\ r1.analysis_bfs = c1.new_bfs_number
                    /\ r2.analysis_bfs = c2.new_bfs_number
        /\ ~ SharesOldIdAndDate(x)
        /\ x \notin true_splits(municipal_changes)


\* C25: every seed has one row in the mapping, and the analysis id of the
\* row is terminal for the seed: it is a true split origin, or no structural
\* edge dated on or after the seed's first appearance leaves it, or the row
\* is at the step bound.
C25_Terminal ==
    /\ \A g \in Seeds :
          Cardinality({m \in v_stable_municipality_mapping : m.original_bfs = g}) = 1
    /\ \A m \in v_stable_municipality_mapping :
          \/ IsTrueSplitOrigin(m.analysis_bfs)
          \/ EligibleEdges(m.analysis_bfs, m.original_bfs) = {}
          \/ m.merge_depth = MaxDepth

\* a seed resolved over an edge to an id whose structural edge is dated
\* before the seed's first appearance
C25_Witness ==
    \E m \in v_stable_municipality_mapping :
        /\ m.merge_depth >= 1
        /\ ~ IsTrueSplitOrigin(m.analysis_bfs)
        /\ EligibleEdges(m.analysis_bfs, m.original_bfs) = {}
        /\ \E c \in municipal_changes :
              /\ c.old_bfs_number = m.analysis_bfs
              /\ c.new_bfs_number # m.analysis_bfs
              /\ c.mutation_date < FirstAppearance(m.original_bfs)


\* the analysis ids and depths the mapping can give the seed g over the
\* ledger mc
Resolutions(mc, g) ==
    LET rows == {r \in merger_chain(mc, voting_results) : r.original_bfs = g}
    IN  {<<m.analysis_bfs, m.merge_depth>> : m \in GroupMaxRows(rows)}

\* the rows of the traversal of the seed g over the edges of mc, with the
\* true split origins of the whole ledger
SeedChain(mc, g) ==
    ChainRec({b \in ChainBase(voting_results) : b.original_bfs = g}, mc,
             true_splits(municipal_changes))

EarlyChanges(g) ==
    {c \in municipal_changes : c.mutation_date < FirstAppearance(g)}

\* C26: the traversal of a seed goes over no edge dated before
\* the seed's first appearance, and the ledger without one mutation dated
\* before the seed's first appearance gives the seed the same analysis ids
\* and depths.
C26_DateGuard ==
    \A g \in Seeds :
        /\ SeedChain(municipal_changes, g) =
              SeedChain(municipal_changes \ EarlyChanges(g), g)
        /\ \A e \in EarlyChanges(g) :
              Resolutions(municipal_changes \ {e}, g) =
                  Resolutions(municipal_changes, g)


\* C27: the insert of a record whose old id is its new id leaves the set of
\* true split origins, the rows the mapping can return and the rows the
\* aggregated view can return over them as they were.
AnalysisResults(mc, vr) ==
    {v_voting_results_analysis(vr, m) : m \in StableMappings(mc, vr)}

C27_RenameFrame ==
    [][ (\E row \in municipal_changes' \ municipal_changes :
            /\ row.old_bfs_number = row.new_bfs_number
            /\ municipal_changes' = municipal_changes \cup {row})
        => /\ true_splits(municipal_changes') = true_splits(municipal_changes)
           /\ StableMappings(municipal_changes', voting_results') =
                 StableMappings(municipal_changes, voting_results)
           /\ AnalysisResults(municipal_changes', voting_results') =
                 AnalysisResults(municipal_changes, voting_results) ]_vars

\* the ledger holds a record without id change for a seed that is resolved
\* over a structural edge of the same date
C27_Witness ==
    \E c \in municipal_changes :
        /\ c.old_bfs_number = c.new_bfs_number
        /\ \E m \in v_stable_municipality_mapping :
              /\ m.original_bfs = c.old_bfs_number
              /\ m.first_appearance <= c.mutation_date
              /\ m.merge_depth >= 1
        /\ \E e \in municipal_changes :
              /\ e.old_bfs_number = c.old_bfs_number
              /\ e.new_bfs_number # c.old_bfs_number
              /\ e.mutation_date = c.mutation_date


\* C28: the aggregated view holds at most one row for a proposal and an
\* analysis id, and the data-quality view at most one row for an analysis
\* id.
C28_OneRowPerKey ==
    /\ \A x \in analysis_rows : \A y \in analysis_rows :
          (x.proposal_id = y.proposal_id /\ x.municipality_id = y.municipality_id)
              => x = y
    /\ \A x \in quality_rows : \A y \in quality_rows :
          x.analysis_bfs = y.analysis_bfs => x = y


\* C29: when the traversal that gave an original id its row of the mapping
\* went through another original id, the two original ids have the same
\* analysis id.
C29_PathConsistent ==
    LET ch == chain
    IN  \A mA \in v_stable_municipality_mapping :
        \A mB \in v_stable_municipality_mapping :
            ( /\ mA.original_bfs # mB.original_bfs
              /\ \E r \in ch :
                    /\ MappingRow(r) = mA
                    /\ mB.original_bfs \in PathIds(r) )
            => mA.analysis_bfs = mB.analysis_bfs


\* C30: the rows of a file whose processing failed are not stored; every
\* unit of a successfully processed file has its row, and the row of a unit
\* holds as first_seen_date the earliest and as last_seen_date the latest
\* voting date of the successfully processed files that hold the unit, with
\* first_seen_date <= last_seen_date.
ProcessedFiles ==
    {json_files[i] :
        i \in {j \in 1..(file_counts.success_count + file_counts.error_count) :
                 ~ json_files[j].fails}}

SeenDates(level, id) ==
    {voting_date(r.proposal_id) :
        r \in {x \in UNION {f.rows : f \in ProcessedFiles} :
                 x.geo_level = level /\ x.geo_id = id}}

SeenWindow(table, level) ==
    /\ \A t \in table :
          /\ SeenDates(level, t.id) # {}
          /\ t.first_seen_date = <<Min(SeenDates(level, t.id))>>
          /\ t.last_seen_date = <<Max(SeenDates(level, t.id))>>
          /\ t.first_seen_date[1] <= t.last_seen_date[1]
    /\ \A g \in Ids : SeenDates(level, g) # {} => \E t \in table : t.id = g
    /\ \A t1 \in table : \A t2 \in table : t1.id = t2.id => t1 = t2

C30_SeenWindow ==
    /\ SeenWindow(cantons, "canton")
    /\ SeenWindow(districts, "district")
    /\ SeenWindow(municipalities, "municipality")
    /\ voting_results = UNION {f.rows : f \in ProcessedFiles}

\* the municipality A after the file of the later and then the file of the
\* earlier voting date
C30_Witness ==
    /\ Len(json_files) = 2
    /\ file_counts = [success_count |-> 2, error_count |-> 0]
    /\ \E r \in json_files[1].rows : r.proposal_id = 2 /\ r.geo_id = "A"
    /\ \E r \in json_files[2].rows : r.proposal_id = 1 /\ r.geo_id = "A"
    /\ \E t \in municipalities :
          t.id = "A" /\ t.first_seen_date = <<1>> /\ t.last_seen_date = <<3>>
    /\ \E t \in cantons : t.id = "A" /\ t.last_seen_date = <<1>>

====
